---- MODULE Spec2Model ----
(***************************************************************************)
(* Model of the subtitle synchronisation pipeline of src/main.py:          *)
(* sync_subtitle and the helpers it calls (extract_audio, run_ffsubsync,   *)
(* run_alass_sync, calculate_offset_from_srt, parse_srt_time,              *)
(* ms_to_srt_time).  The three external tools are environment: how they    *)
(* end and what they leave at their output path is chosen                  *)
(* nondeterministically.                                                   *)
(***************************************************************************)
EXTENDS Integers, Sequences, FiniteSets, TLC

VARIABLES pc, request, tmp, now, start_time, success, output_log,
          synced_content, result, invoked, outcome, verdict,
          score, offset_response,
          ms_in, srt_text, ms_back,
          n_orig, diffs, estimate,
          probe, report,
          fs, rq

(* pc             position of the run in sync_subtitle: "called", "write",  *)
(*                "extract", "ffsubsync", "alass", "read", "estimate", and  *)
(*                "returned" (a response was returned) or "raised" (an      *)
(*                exception left the function)                              *)
(* request        the SyncRequest (its subtitle text)                       *)
(* tmp            the temporary directory and its three files               *)
(* now            the wall clock; start_time, success, output_log and       *)
(*                synced_content are the locals of sync_subtitle            *)
(*                (synced_content is <<>> until read, then the file read,   *)
(*                which records who wrote it)                               *)
(* result         <<>> or <<the SyncResponse returned>>                     *)
(* invoked        history: the tools run, "read" and "estimate", in order   *)
(* outcome        history: how each tool's subprocess.run ended             *)
(* verdict        history: what the tool's wrapper returned ("ok"/"fail")   *)
(* score          history: the 'score: <float>' token (in tenths) in the    *)
(*                captured output behind output_log, <<>> if it has none    *)
(* offset_response  <<>> or <<the response of get_offset_only>>             *)
(*                                                                         *)
(* The other variables belong to the specifications of the parts that do   *)
(* not run inside one sync_subtitle call; each specification holds the     *)
(* variables of the others fixed.                                          *)
(* ms_in, srt_text, ms_back   SpecCodec: a millisecond value, its          *)
(*                ms_to_srt_time text, and parse_srt_time of that text      *)
(* n_orig, diffs, estimate    SpecOffset: the number of cues of the        *)
(*                original track, the shift of each cue of the aligned     *)
(*                track, and <<>> or <<calculate_offset_from_srt(...)>>     *)
(* probe, report  SpecHealth: how the version query of each tool ends, and *)
(*                what health() gave                                       *)
(* fs, rq         SpecConc: the temporary directories of the host, and     *)
(*                for each concurrent sync_subtitle call its directory,    *)
(*                its run as it goes on the shared host, and the same run  *)
(*                as it would go alone                                     *)

syncVars == <<pc, request, tmp, now, start_time, success, output_log,
              synced_content, result, invoked, outcome, verdict,
              score, offset_response>>

codecVars == <<ms_in, srt_text, ms_back>>

offsetVars == <<n_orig, diffs, estimate>>

healthVars == <<probe, report>>

concVars == <<fs, rq>>

vars == <<syncVars, codecVars, offsetVars, healthVars, concVars>>

(* ------------------------------ bounds --------------------------------- *)

\* largest number of cue lines in a subtitle text of the model
MaxCues == 2

\* largest wall-clock advance (ms) of one blocking step
MaxTick == 1

\* largest number of cues of a track given to the offset estimator alone
MaxPairs == 6

(* -------------------------- program constants -------------------------- *)

\* extract_audio: file_size > 10000
MinAudioBytes == 10000

\* calculate_offset_from_srt: min(5, ...)
MaxCompared == 5

\* SyncResponse(confidence=0.9), in tenths
DefaultConfidence == 9

(* --------------------------- timestamp codec --------------------------- *)

Digit == <<"0", "1", "2", "3", "4", "5", "6", "7", "8", "9">>

DigitChars == {Digit[i] : i \in 1..10}

\* int() of one decimal digit character
DigitVal(c) == (CHOOSE i \in 1..10 : Digit[i] = c) - 1

Min(a, b) == IF a <= b THEN a ELSE b

RECURSIVE Decimal(_)
\* str(n) for n >= 0
Decimal(n) == IF n < 10 THEN <<Digit[n + 1]>>
              ELSE Decimal(n \div 10) \o <<Digit[(n % 10) + 1]>>

RECURSIVE ZeroPad(_, _)
\* format spec 0<w>d: at least w digits, longer numbers are not cut
ZeroPad(s, w) == IF Len(s) >= w THEN s ELSE ZeroPad(<<"0">> \o s, w)

RECURSIVE IntOf(_)
\* int() of a string of decimal digits
IntOf(s) == IF s = <<>> THEN 0
            ELSE 10 * IntOf(SubSeq(s, 1, Len(s) - 1)) + DigitVal(s[Len(s)])

\* the regex (\d{2}):(\d{2}):(\d{2}),(\d{3}) matches s from position i
MatchAt(s, i) ==
    /\ i >= 1
    /\ i + 11 <= Len(s)
    /\ \A k \in {0, 1, 3, 4, 6, 7, 9, 10, 11} : s[i + k] \in DigitChars
    /\ s[i + 2] = ":"
    /\ s[i + 5] = ":"
    /\ s[i + 8] = ","

parse_srt_time(time_str) ==
    IF ~MatchAt(time_str, 1) THEN 0
    ELSE IntOf(SubSeq(time_str, 1, 2)) * 3600000
         + IntOf(SubSeq(time_str, 4, 5)) * 60000
         + IntOf(SubSeq(time_str, 7, 8)) * 1000
         + IntOf(SubSeq(time_str, 10, 12))

ms_to_srt_time(ms0) ==
    LET ms == IF ms0 < 0 THEN 0 ELSE ms0
        h  == ms \div 3600000
        r1 == ms % 3600000
        m  == r1 \div 60000
        r2 == r1 % 60000
        s  == r2 \div 1000
        r3 == r2 % 1000
    IN  ZeroPad(Decimal(h), 2) \o <<":">> \o ZeroPad(Decimal(m), 2) \o <<":">>
        \o ZeroPad(Decimal(s), 2) \o <<",">> \o ZeroPad(Decimal(r3), 3)

(* ---------------------------- subtitle text ---------------------------- *)
(* A text is a sequence of lines, a line a sequence of characters; the     *)
(* four characters " -->" are one token.                                   *)

Arrow == " -->"

\* the cue line "<start> --> ..." of a cue starting at ms
CueLine(ms) == ms_to_srt_time(ms) \o <<Arrow>>

\* a caption line, without a timestamp
CaptionLine == <<"t", "x", "t">>

\* positions of a line where (\d{2}:\d{2}:\d{2},\d{3}) --> matches
MatchPositions(line) ==
    {i \in 1..Len(line) : MatchAt(line, i) /\ i + 12 <= Len(line)
                          /\ line[i + 12] = Arrow}

RECURSIVE FindAll(_)
\* re.findall(r'(\d{2}:\d{2}:\d{2},\d{3}) -->', text): the captured
\* timestamps in text order (a line of the model holds at most one arrow)
FindAll(text) ==
    IF text = <<>> THEN <<>>
    ELSE LET line == text[1]
             ps   == MatchPositions(line)
             rest == FindAll(SubSeq(text, 2, Len(text)))
         IN  IF ps = {} THEN rest
             ELSE LET i == CHOOSE p \in ps : \A q \in ps : p <= q
                  IN  <<SubSeq(line, i, i + 11)>> \o rest

RECURSIVE Insert(_, _)
Insert(x, s) == IF s = <<>> THEN <<x>>
                ELSE IF x <= s[1] THEN <<x>> \o s
                ELSE <<s[1]>> \o Insert(x, SubSeq(s, 2, Len(s)))

RECURSIVE Sorted(_)
\* list.sort() on integers
Sorted(s) == IF s = <<>> THEN <<>>
             ELSE Insert(s[1], Sorted(SubSeq(s, 2, Len(s))))

\* the lower of the two middle elements taken on an even count
calculate_offset_lower(original, synced) ==
    LET orig_times == FindAll(original)
        sync_times == FindAll(synced)
        n          == Min(MaxCompared, Min(Len(orig_times), Len(sync_times)))
        offsets    == [i \in 1..n |-> parse_srt_time(sync_times[i])
                                      - parse_srt_time(orig_times[i])]
    IN  IF orig_times = <<>> \/ sync_times = <<>> THEN 0
        ELSE IF n > 0 THEN Sorted(offsets)[((n - 1) \div 2) + 1]
        ELSE 0

\* a track without timestamps taken as a track starting at zero
calculate_offset_zeroTrack(original, synced) ==
    LET orig_times == FindAll(original)
        sync_times == FindAll(synced)
        n          == Min(MaxCompared, Min(Len(orig_times), Len(sync_times)))
        offsets    == [i \in 1..n |-> parse_srt_time(sync_times[i])
                                      - parse_srt_time(orig_times[i])]
    IN  IF orig_times = <<>> /\ sync_times = <<>> THEN 0
        ELSE IF n > 0 THEN Sorted(offsets)[(n \div 2) + 1]
        ELSE IF orig_times = <<>> THEN parse_srt_time(sync_times[1])
        ELSE 0 - parse_srt_time(orig_times[1])

RECURSIVE SumSeq(_)
SumSeq(q) == IF q = <<>> THEN 0 ELSE q[1] + SumSeq(SubSeq(q, 2, Len(q)))

\* the average of the differences in place of their median
calculate_offset_mean(original, synced) ==
    LET orig_times == FindAll(original)
        sync_times == FindAll(synced)
        n          == Min(MaxCompared, Min(Len(orig_times), Len(sync_times)))
        offsets    == [i \in 1..n |-> parse_srt_time(sync_times[i])
                                      - parse_srt_time(orig_times[i])]
    IN  IF orig_times = <<>> \/ sync_times = <<>> THEN 0
        ELSE IF n > 0 THEN SumSeq(offsets) \div n
        ELSE 0

calculate_offset_from_srt(original, synced) ==
    LET orig_times == FindAll(original)
        sync_times == FindAll(synced)
        n          == Min(MaxCompared, Min(Len(orig_times), Len(sync_times)))
        offsets    == [i \in 1..n |-> parse_srt_time(sync_times[i])
                                      - parse_srt_time(orig_times[i])]
    IN  IF orig_times = <<>> \/ sync_times = <<>> THEN 0
        ELSE IF n > 0 THEN Sorted(offsets)[(n \div 2) + 1]
        ELSE 0

(* ------------------------------ inputs --------------------------------- *)

\* cue start times (ms) used to build the texts of the model
CueTimes == {500, 3723004}

RECURSIVE CueSeqs(_)
CueSeqs(n) == IF n = 0 THEN {<<>>}
              ELSE CueSeqs(n - 1)
                   \cup {Append(q, t) : q \in {c \in CueSeqs(n - 1) : Len(c) = n - 1},
                                        t \in CueTimes}

\* a text with one cue line and one caption line per start time
SrtOf(starts) == [i \in 1..(2 * Len(starts)) |->
                    IF i % 2 = 1 THEN CueLine(starts[(i + 1) \div 2])
                    ELSE CaptionLine]

\* subtitle texts: up to MaxCues cues, and a text without any timestamp
Texts == {SrtOf(q) : q \in CueSeqs(MaxCues)} \cup {<<CaptionLine>>}

(* ------------------------- temporary directory ------------------------- *)

FileNames == {"audio.wav", "input.srt", "synced.srt"}

NoFile == [present |-> FALSE, writer |-> "none", size |-> 0,
           decodable |-> TRUE, text |-> <<>>]

\* a UTF-8 text file holding text, written by writer
TextFile(writer, text) == [present |-> TRUE, writer |-> writer, size |-> Len(text),
                           decodable |-> TRUE, text |-> text]

\* a non-empty file whose bytes are not valid UTF-8
BinaryFile(writer) == [present |-> TRUE, writer |-> writer, size |-> 1,
                       decodable |-> FALSE, text |-> <<>>]

\* a WAV file of size bytes
AudioFile(size) == [present |-> TRUE, writer |-> "ffmpeg", size |-> size,
                    decodable |-> FALSE, text |-> <<>>]

\* what ffmpeg may leave at audio.wav
AudioWrites == {AudioFile(n) : n \in {0, MinAudioBytes, MinAudioBytes + 1}}

\* what an alignment tool may leave at synced.srt (the empty text is an
\* empty file)
SyncedWrites(tool) == {TextFile(tool, t) : t \in Texts \cup {<<>>}}
                      \cup {BinaryFile(tool)}

NoDir == [exists |-> FALSE, files |-> [n \in FileNames |-> NoFile]]

\* tempfile.TemporaryDirectory().__enter__: a fresh, empty directory
NewDir == [exists |-> TRUE, files |-> [n \in FileNames |-> NoFile]]

\* os.path.exists(path)
path_exists(t, name) == t.exists /\ t.files[name].present

\* os.path.getsize(path)
path_getsize(t, name) == t.files[name].size

\* cleanup written on the return paths only: an exception leaves the
\* directory behind
ExitScope_returnOnly(t, how) == IF how = "return" THEN NoDir ELSE t

\* leaving the with block of sync_subtitle, by return or by an exception
\* (how): TemporaryDirectory.__exit__ removes the directory and its content
ExitScope(t, how) == NoDir

(* ---------------------- external tool invocations ---------------------- *)

Tools == {"ffmpeg", "ffsubsync", "alass"}

\* how subprocess.run ends: the exit code, TimeoutExpired, FileNotFoundError
\* (no such executable) or another exception
Outcomes == {"exit0", "exitN", "timeout", "notfound", "raised"}

\* the directory after the tool ran: it wrote file at name, or left the
\* path as it was (a missing executable never writes)
AfterRun(t, name, how, touched, file) ==
    IF touched /\ how # "notfound"
    THEN [t EXCEPT !.files[name] = file]
    ELSE t

\* whether the tool wrote its output path: a missing executable never does
Touches(how) == IF how = "notfound" THEN {FALSE} ELSE BOOLEAN

EmptyLog == [tool |-> "none", text |-> ""]

\* what the 'score: <float>' token of a tool's output may be, in tenths:
\* none, or 0.5
Scores == {<<>>, <<5>>}

\* the score token in result.stdout + result.stderr: output is captured
\* only when the tool ran to its end
Captured(how, sc) == IF how \in {"exit0", "exitN"} THEN sc ELSE <<>>

\* the score tokens a tool ending as how can have emitted
Emitted(how) == {Captured(how, sc) : sc \in Scores}

\* the size check with >= in place of >
extract_audio_atLeast(how, t) ==
    IF how \in {"timeout", "notfound", "raised"} THEN FALSE
    ELSE IF how # "exit0" THEN FALSE
    ELSE LET file_exists == path_exists(t, "audio.wav")
             file_size   == IF file_exists THEN path_getsize(t, "audio.wav") ELSE 0
         IN  file_exists /\ file_size >= MinAudioBytes

extract_audio(how, t) ==
    IF how \in {"timeout", "notfound", "raised"} THEN FALSE
    ELSE IF how # "exit0" THEN FALSE
    ELSE LET file_exists == path_exists(t, "audio.wav")
             file_size   == IF file_exists THEN path_getsize(t, "audio.wav") ELSE 0
         IN  file_exists /\ file_size > MinAudioBytes

\* <<success, output_log>> of an alignment tool ending as how with the
\* directory t: the exit code is never looked at
run_align(tool, how, t) ==
    IF how = "timeout" THEN <<FALSE, [tool |-> tool, text |-> "Timeout"]>>
    ELSE IF how \in {"notfound", "raised"}
         THEN <<FALSE, [tool |-> tool, text |-> "str(e)"]>>
    ELSE <<path_exists(t, "synced.srt") /\ path_getsize(t, "synced.srt") > 0,
           [tool |-> tool, text |-> "stdout+stderr"]>>

run_ffsubsync(how, t) == run_align("ffsubsync", how, t)

run_alass_sync(how, t) == run_align("alass", how, t)

(* ------------------------------ responses ------------------------------ *)
(* An Optional field is <<>> (None) or <<v>>.                              *)

Message(text, log, offset) == [text |-> text, log |-> log, offset |-> offset]

\* SyncResponse(...); synced_subtitle and confidence default to None
SyncResponse(ok, offset_ms, synced_subtitle, confidence, message, time) ==
    [success |-> ok, offset_ms |-> offset_ms, synced_subtitle |-> synced_subtitle,
     confidence |-> confidence, message |-> message, processing_time_ms |-> time]

\* the response when extract_audio returned False
ExtractFailed(time) ==
    SyncResponse(FALSE, 0, <<>>, <<>>,
                 Message("Failed to extract audio from stream. Check if URL is accessible.",
                         EmptyLog, 0),
                 time)

\* a failure response that hands back whatever is at the output path
SyncFailed_partial(log, content, time) ==
    SyncResponse(FALSE, 0, IF content # <<>> THEN <<content>> ELSE <<>>, <<>>,
                 Message("Synchronization failed: ", log, 0), time)

\* the response when neither alignment attempt was judged successful
SyncFailed(log, content, time) ==
    SyncResponse(FALSE, 0, <<>>, <<>>,
                 Message("Synchronization failed: ", log, 0), time)

\* the response of a successful run
Synchronized(offset_ms, content, time) ==
    SyncResponse(TRUE, offset_ms, <<content>>, <<DefaultConfidence>>,
                 Message("Synchronized successfully. Offset: ", EmptyLog, offset_ms),
                 time)

(* --------------------- the branches of sync_subtitle ------------------- *)

\* the early return on a failed extraction left out
AfterExtraction_noReturn(ok) == "ffsubsync"

\* if not extract_audio(...): return the failure response
AfterExtraction(ok) == IF ok THEN "ffsubsync" ELSE "returned"

\* alass run whatever the primary attempt gave
AfterPrimary_always(ok) == "alass"

\* if not success: run_alass_sync(...)
AfterPrimary(ok) == IF ok THEN "read" ELSE "alass"

\* a failed fallback attempt run again
AfterFallback_retry(ok) == IF ok THEN "read" ELSE "alass"

\* if not success: return the failure response
AfterFallback(ok) == IF ok THEN "read" ELSE "returned"

(* --------------------------- sync_subtitle ----------------------------- *)

(* Each specification starts the variables of the other parts at these     *)
(* values and never changes them.                                          *)

SyncIdle ==
    /\ pc = "idle"
    /\ request = [subtitle |-> <<>>]
    /\ tmp = NoDir
    /\ now = 0
    /\ start_time = 0
    /\ success = FALSE
    /\ output_log = EmptyLog
    /\ synced_content = <<>>
    /\ result = <<>>
    /\ invoked = <<>>
    /\ outcome = [t \in Tools |-> "none"]
    /\ verdict = [t \in Tools |-> "none"]
    /\ score = <<>>
    /\ offset_response = <<>>

CodecIdle == ms_in = 0 /\ srt_text = <<>> /\ ms_back = -1

OffsetIdle == n_orig = 0 /\ diffs = <<>> /\ estimate = <<>>

HealthIdle == probe = <<>> /\ report = <<>>

ConcIdle == fs = <<>> /\ rq = <<>>

\* a step of one sync_subtitle call leaves the other parts alone
Aside == UNCHANGED <<codecVars, offsetVars, healthVars, concVars>>

Init ==
    /\ pc = "called"
    /\ request \in [subtitle : Texts]
    /\ tmp = NoDir
    /\ now = 0
    /\ start_time = 0
    /\ success = FALSE
    /\ output_log = EmptyLog
    /\ synced_content = <<>>
    /\ result = <<>>
    /\ invoked = <<>>
    /\ outcome = [t \in Tools |-> "none"]
    /\ verdict = [t \in Tools |-> "none"]
    /\ score = <<>>
    /\ offset_response = <<>>
    /\ CodecIdle /\ OffsetIdle /\ HealthIdle /\ ConcIdle

\* start_time = datetime.now(); with tempfile.TemporaryDirectory() as tmpdir
EnterScope ==
    /\ pc = "called"
    /\ start_time' = now
    /\ tmp' = NewDir
    /\ pc' = "write"
    /\ UNCHANGED <<request, now, success, output_log, synced_content, result,
                   invoked, outcome, verdict>>
    /\ UNCHANGED <<score, offset_response>>
    /\ Aside

\* with open(sub_path, "w", encoding="utf-8") as f: f.write(request.subtitle)
\* The write may raise (OSError, UnicodeEncodeError); nothing catches it.
WriteSubtitle ==
    /\ pc = "write"
    /\ \E written \in BOOLEAN :
         IF written
         THEN /\ tmp' = [tmp EXCEPT !.files["input.srt"] =
                                       TextFile("service", request.subtitle)]
              /\ pc' = "extract"
         ELSE /\ tmp' = ExitScope(tmp, "raise")
              /\ pc' = "raised"
    /\ UNCHANGED <<request, now, start_time, success, output_log, synced_content,
                   result, invoked, outcome, verdict>>
    /\ UNCHANGED <<score, offset_response>>
    /\ Aside

\* if not extract_audio(request.stream_url, audio_path): return SyncResponse(...)
ExtractAudio ==
    /\ pc = "extract"
    /\ \E how \in Outcomes, d \in 0..MaxTick :
       \E touched \in Touches(how) :
       \E file \in IF touched THEN AudioWrites ELSE {NoFile} :
         LET t  == AfterRun(tmp, "audio.wav", how, touched, file)
             ok == extract_audio(how, t)
         IN  /\ now' = now + d
             /\ invoked' = Append(invoked, "ffmpeg")
             /\ outcome' = [outcome EXCEPT !["ffmpeg"] = how]
             /\ verdict' = [verdict EXCEPT !["ffmpeg"] = IF ok THEN "ok" ELSE "fail"]
             /\ pc' = AfterExtraction(ok)
             /\ IF pc' = "returned"
                THEN /\ result' = <<ExtractFailed(now' - start_time)>>
                     /\ tmp' = ExitScope(t, "return")
                ELSE /\ result' = result
                     /\ tmp' = t
    /\ UNCHANGED <<request, start_time, success, output_log, synced_content>>
    /\ UNCHANGED <<score, offset_response>>
    /\ Aside

\* success, output_log = run_ffsubsync(audio_path, sub_path, synced_path)
\* run_ffsubsync catches every exception, FileNotFoundError included, so the
\* except FileNotFoundError clause around the call is never entered.
RunFfsubsync ==
    /\ pc = "ffsubsync"
    /\ \E how \in Outcomes, d \in 0..MaxTick :
       \E touched \in Touches(how), sc \in Emitted(how) :
       \E file \in IF touched THEN SyncedWrites("ffsubsync") ELSE {NoFile} :
         LET t == AfterRun(tmp, "synced.srt", how, touched, file)
             r == run_ffsubsync(how, t)
         IN  /\ now' = now + d
             /\ tmp' = t
             /\ success' = r[1]
             /\ output_log' = r[2]
             /\ score' = Captured(how, sc)
             /\ invoked' = Append(invoked, "ffsubsync")
             /\ outcome' = [outcome EXCEPT !["ffsubsync"] = how]
             /\ verdict' = [verdict EXCEPT !["ffsubsync"] = IF r[1] THEN "ok" ELSE "fail"]
             /\ pc' = AfterPrimary(r[1])
    /\ UNCHANGED <<request, start_time, synced_content, result>>
    /\ UNCHANGED offset_response
    /\ Aside

\* success, output_log = run_alass_sync(audio_path, sub_path, synced_path);
\* if not success: return SyncResponse(...)
RunAlass ==
    /\ pc = "alass"
    /\ \E how \in Outcomes, d \in 0..MaxTick :
       \E touched \in Touches(how), sc \in Emitted(how) :
       \E file \in IF touched THEN SyncedWrites("alass") ELSE {NoFile} :
         LET t == AfterRun(tmp, "synced.srt", how, touched, file)
             r == run_alass_sync(how, t)
         IN  /\ now' = now + d
             /\ success' = r[1]
             /\ output_log' = r[2]
             /\ score' = Captured(how, sc)
             /\ invoked' = Append(invoked, "alass")
             /\ outcome' = [outcome EXCEPT !["alass"] = how]
             /\ verdict' = [verdict EXCEPT !["alass"] = IF r[1] THEN "ok" ELSE "fail"]
             /\ pc' = AfterFallback(r[1])
             /\ IF pc' = "returned"
                THEN /\ result' = <<SyncFailed(r[2], t.files["synced.srt"].text,
                                               now' - start_time)>>
                     /\ tmp' = ExitScope(t, "return")
                ELSE /\ result' = result
                     /\ tmp' = t
    /\ UNCHANGED <<request, start_time, synced_content>>
    /\ UNCHANGED offset_response
    /\ Aside

\* with open(synced_path, "r", encoding="utf-8") as f: synced_content = f.read()
\* Bytes that are not UTF-8 raise UnicodeDecodeError; nothing catches it.
ReadSynced ==
    /\ pc = "read"
    /\ invoked' = Append(invoked, "read")
    /\ IF path_exists(tmp, "synced.srt") /\ tmp.files["synced.srt"].decodable
       THEN /\ synced_content' = <<tmp.files["synced.srt"]>>
            /\ tmp' = tmp
            /\ pc' = "estimate"
       ELSE /\ synced_content' = synced_content
            /\ tmp' = ExitScope(tmp, "raise")
            /\ pc' = "raised"
    /\ UNCHANGED <<request, now, start_time, success, output_log, result,
                   outcome, verdict>>
    /\ UNCHANGED <<score, offset_response>>
    /\ Aside

\* offset_ms = calculate_offset_from_srt(request.subtitle, synced_content);
\* return SyncResponse(success=True, ...)
ReturnSynchronized ==
    /\ pc = "estimate"
    /\ \E d \in 0..MaxTick :
         LET offset_ms == calculate_offset_from_srt(request.subtitle,
                                                    synced_content[1].text)
         IN  /\ now' = now + d
             /\ result' = <<Synchronized(offset_ms, synced_content[1].text,
                                         now' - start_time)>>
    /\ invoked' = Append(invoked, "estimate")
    /\ tmp' = ExitScope(tmp, "return")
    /\ pc' = "returned"
    /\ UNCHANGED <<request, start_time, success, output_log, synced_content,
                   outcome, verdict>>
    /\ UNCHANGED <<score, offset_response>>
    /\ Aside

\* the response handed on as sync_subtitle gave it
ClearSubtitle_kept(response) == response

\* response.synced_subtitle = None
ClearSubtitle(response) == [response EXCEPT !.synced_subtitle = <<>>]

\* get_offset_only: response = await sync_subtitle(request); clear the
\* subtitle; return response.  An exception of sync_subtitle passes through.
GetOffsetOnly ==
    /\ pc = "returned"
    /\ offset_response = <<>>
    /\ offset_response' = <<ClearSubtitle(result[1])>>
    /\ UNCHANGED <<pc, request, tmp, now, start_time, success, output_log,
                   synced_content, result, invoked, outcome, verdict, score>>
    /\ Aside

Next ==
    \/ EnterScope
    \/ WriteSubtitle
    \/ ExtractAudio
    \/ RunFfsubsync
    \/ RunAlass
    \/ ReadSynced
    \/ ReturnSynchronized
    \/ GetOffsetOnly

Spec == Init /\ [][Next]_vars

(* ------------------------- the timestamp codec ------------------------- *)
(* SpecCodec: a millisecond value is formatted by ms_to_srt_time and the    *)
(* text parsed back by parse_srt_time.                                      *)

\* hour fields of the values tried: two digits, and three (100 hours and up)
CodecHours == {0, 1, 99, 100, 101}

\* the values tried: each field at its least and its greatest
CodecInputs ==
    {h * 3600000 + m * 60000 + sec * 1000 + f :
        h \in CodecHours, m \in {0, 59}, sec \in {0, 59}, f \in {0, 999}}

CodecInit ==
    /\ ms_in \in CodecInputs
    /\ srt_text = <<>>
    /\ ms_back = -1
    /\ SyncIdle /\ OffsetIdle /\ HealthIdle /\ ConcIdle

\* srt_text = ms_to_srt_time(ms_in)
Format ==
    /\ srt_text = <<>>
    /\ srt_text' = ms_to_srt_time(ms_in)
    /\ UNCHANGED <<ms_in, ms_back, syncVars, offsetVars, healthVars, concVars>>

\* ms_back = parse_srt_time(srt_text)
Parse ==
    /\ srt_text # <<>>
    /\ ms_back = -1
    /\ ms_back' = parse_srt_time(srt_text)
    /\ UNCHANGED <<ms_in, srt_text, syncVars, offsetVars, healthVars, concVars>>

CodecNext ==
    \/ Format
    \/ Parse

SpecCodec == CodecInit /\ [][CodecNext]_vars

(* ------------------------- the offset estimator ------------------------ *)
(* SpecOffset: calculate_offset_from_srt on an original track of n_orig     *)
(* cues and an aligned track whose i-th cue is the i-th original cue        *)
(* shifted by diffs[i].                                                     *)

\* the shifts (ms) a cue of the aligned track may have
Shifts == {-500, 0, 1500}

RECURSIVE ShiftSeqs(_)
ShiftSeqs(n) == IF n = 0 THEN {<<>>}
                ELSE ShiftSeqs(n - 1)
                     \cup {Append(q, d) : q \in {c \in ShiftSeqs(n - 1) : Len(c) = n - 1},
                                          d \in Shifts}

\* start time (ms) of the i-th cue of the original track
CueStart(i) == i * 3661001

\* a track: a caption line, then a cue line and a caption line per cue
Track(starts) == <<CaptionLine>> \o SrtOf(starts)

OriginalTrack == Track([i \in 1..n_orig |-> CueStart(i)])

AlignedTrack == Track([i \in 1..Len(diffs) |-> CueStart(i) + diffs[i]])

OffsetInit ==
    /\ n_orig \in 0..MaxPairs
    /\ diffs \in ShiftSeqs(MaxPairs)
    /\ estimate = <<>>
    /\ SyncIdle /\ CodecIdle /\ HealthIdle /\ ConcIdle

\* estimate = calculate_offset_from_srt(original, aligned)
Estimate ==
    /\ estimate = <<>>
    /\ estimate' = <<calculate_offset_from_srt(OriginalTrack, AlignedTrack)>>
    /\ UNCHANGED <<n_orig, diffs, syncVars, codecVars, healthVars, concVars>>

OffsetNext == Estimate

SpecOffset == OffsetInit /\ [][OffsetNext]_vars

(* ------------------------------- health -------------------------------- *)
(* SpecHealth: health() on a host where the version query of each tool     *)
(* ends as probe says.                                                     *)

\* how subprocess.run([tool, "--version"]) ends (there is no timeout): the
\* exit code, FileNotFoundError, or another exception (e.g. PermissionError)
ProbeOutcomes == {"exit0", "exitN", "notfound", "raised"}

\* health() raised: no report
NoReport == [kind |-> "raised", status |-> "", ffmpeg |-> "", ffsubsync |-> "",
             alass |-> ""]

OkOrMissing(ok) == IF ok THEN "ok" ELSE "missing"

\* the return value of health(): the ffmpeg query is not inside a try, the
\* other two catch FileNotFoundError only
health(p) ==
    IF p["ffmpeg"] \in {"notfound", "raised"} THEN NoReport
    ELSE IF p["ffsubsync"] = "raised" THEN NoReport
    ELSE IF p["alass"] = "raised" THEN NoReport
    ELSE LET ffmpeg_ok    == p["ffmpeg"] = "exit0"
             ffsubsync_ok == p["ffsubsync"] = "exit0"
             alass_ok     == p["alass"] = "exit0"
         IN  [kind      |-> "report",
              status    |-> IF ffmpeg_ok /\ (ffsubsync_ok \/ alass_ok)
                            THEN "healthy" ELSE "degraded",
              ffmpeg    |-> OkOrMissing(ffmpeg_ok),
              ffsubsync |-> OkOrMissing(ffsubsync_ok),
              alass     |-> OkOrMissing(alass_ok)]

HealthInit ==
    /\ probe \in [Tools -> ProbeOutcomes]
    /\ report = <<>>
    /\ SyncIdle /\ CodecIdle /\ OffsetIdle /\ ConcIdle

\* GET /health
Health ==
    /\ report = <<>>
    /\ report' = <<health(probe)>>
    /\ UNCHANGED <<probe, syncVars, codecVars, offsetVars, concVars>>

HealthNext == Health

SpecHealth == HealthInit /\ [][HealthNext]_vars

(* ------------------------- concurrent requests ------------------------- *)
(* SpecConc: two sync_subtitle calls whose steps interleave on one host.    *)
(* A run is the record of one call: its position, its request, the          *)
(* directory it works in and its locals.  The steps below are those of      *)
(* sync_subtitle on such a record; the elapsed time is left at 0.           *)

Reqs == {1, 2}

\* the names tempfile can give a directory
DirNames == {"tmp_a", "tmp_b"}

\* every call works in one directory that all calls are given
mkdtemp_shared(f) == {"tmp_a"}

\* tempfile.mkdtemp: a name under which no directory exists
mkdtemp(f) == {d \in DirNames : ~f[d].exists}

\* subtitle texts of the concurrent requests and of their tools' output
ConcTexts == {SrtOf(<<500>>), SrtOf(<<3723004>>)}

ConcWrites(tool) == {TextFile(tool, t) : t \in ConcTexts \cup {<<>>}}
                    \cup {BinaryFile(tool)}

NewRun(subtitle) ==
    [pc |-> "called", subtitle |-> subtitle, tmp |-> NoDir, success |-> FALSE,
     output_log |-> EmptyLog, synced_content |-> <<>>, result |-> <<>>]

\* leaving sync_subtitle by an exception
Raise(run) == [run EXCEPT !.tmp = ExitScope(run.tmp, "raise"), !.pc = "raised"]

\* leaving sync_subtitle with a response
Return(run, response) ==
    [run EXCEPT !.tmp = ExitScope(run.tmp, "return"), !.pc = "returned",
                !.result = <<response>>]

StepEnter(run) == [run EXCEPT !.tmp = NewDir, !.pc = "write"]

StepWrite(run, written) ==
    IF written
    THEN [run EXCEPT !.tmp.files["input.srt"] = TextFile("service", run.subtitle),
                     !.pc = "extract"]
    ELSE Raise(run)

StepExtract(run, how, touched, file) ==
    LET t  == AfterRun(run.tmp, "audio.wav", how, touched, file)
        ok == extract_audio(how, t)
        r2 == [run EXCEPT !.tmp = t, !.pc = AfterExtraction(ok)]
    IN  IF r2.pc = "returned" THEN Return(r2, ExtractFailed(0)) ELSE r2

StepFfsubsync(run, how, touched, file) ==
    LET t == AfterRun(run.tmp, "synced.srt", how, touched, file)
        r == run_ffsubsync(how, t)
    IN  [run EXCEPT !.tmp = t, !.success = r[1], !.output_log = r[2],
                    !.pc = AfterPrimary(r[1])]

StepAlass(run, how, touched, file) ==
    LET t  == AfterRun(run.tmp, "synced.srt", how, touched, file)
        r  == run_alass_sync(how, t)
        r2 == [run EXCEPT !.tmp = t, !.success = r[1], !.output_log = r[2],
                          !.pc = AfterFallback(r[1])]
    IN  IF r2.pc = "returned"
        THEN Return(r2, SyncFailed(r[2], t.files["synced.srt"].text, 0))
        ELSE r2

StepRead(run) ==
    IF path_exists(run.tmp, "synced.srt") /\ run.tmp.files["synced.srt"].decodable
    THEN [run EXCEPT !.synced_content = <<run.tmp.files["synced.srt"]>>,
                     !.pc = "estimate"]
    ELSE Raise(run)

StepReturn(run) ==
    LET text == run.synced_content[1].text
    IN  Return(run, Synchronized(calculate_offset_from_srt(run.subtitle, text),
                                 text, 0))

\* the run of call r as it stands on the host: its locals, and its
\* directory as the file system has it
View(r) == [rq[r].run EXCEPT !.tmp = IF rq[r].dir = "" THEN NoDir
                                      ELSE fs[rq[r].dir]]

\* call r has taken a step that made its run next on the host and alone
\* in a private directory; its directory on the host is written back
Took(r, next, alone) ==
    /\ rq' = [rq EXCEPT ![r].run = next, ![r].alone = alone]
    /\ fs' = IF rq[r].dir = "" THEN fs ELSE [fs EXCEPT ![rq[r].dir] = next.tmp]
    /\ UNCHANGED <<syncVars, codecVars, offsetVars, healthVars>>

ConcInit ==
    /\ fs = [d \in DirNames |-> NoDir]
    /\ rq \in [Reqs -> {[dir |-> "", run |-> NewRun(t), alone |-> NewRun(t)] :
                          t \in ConcTexts}]
    /\ SyncIdle /\ CodecIdle /\ OffsetIdle /\ HealthIdle

ConcEnter(r) ==
    /\ rq[r].run.pc = "called"
    /\ \E d \in mkdtemp(fs) :
         /\ rq' = [rq EXCEPT ![r].dir = d,
                             ![r].run = StepEnter(rq[r].run),
                             ![r].alone = StepEnter(rq[r].alone)]
         /\ fs' = [fs EXCEPT ![d] = NewDir]
    /\ UNCHANGED <<syncVars, codecVars, offsetVars, healthVars>>

ConcWrite(r) ==
    /\ rq[r].run.pc = "write"
    /\ \E written \in BOOLEAN :
         Took(r, StepWrite(View(r), written), StepWrite(rq[r].alone, written))

ConcExtract(r) ==
    /\ rq[r].run.pc = "extract"
    /\ \E how \in Outcomes :
       \E touched \in Touches(how) :
       \E file \in IF touched THEN AudioWrites ELSE {NoFile} :
         Took(r, StepExtract(View(r), how, touched, file),
                 StepExtract(rq[r].alone, how, touched, file))

ConcFfsubsync(r) ==
    /\ rq[r].run.pc = "ffsubsync"
    /\ \E how \in Outcomes :
       \E touched \in Touches(how) :
       \E file \in IF touched THEN ConcWrites("ffsubsync") ELSE {NoFile} :
         Took(r, StepFfsubsync(View(r), how, touched, file),
                 StepFfsubsync(rq[r].alone, how, touched, file))

ConcAlass(r) ==
    /\ rq[r].run.pc = "alass"
    /\ \E how \in Outcomes :
       \E touched \in Touches(how) :
       \E file \in IF touched THEN ConcWrites("alass") ELSE {NoFile} :
         Took(r, StepAlass(View(r), how, touched, file),
                 StepAlass(rq[r].alone, how, touched, file))

ConcRead(r) ==
    /\ rq[r].run.pc = "read"
    /\ Took(r, StepRead(View(r)), StepRead(rq[r].alone))

ConcReturn(r) ==
    /\ rq[r].run.pc = "estimate"
    /\ Took(r, StepReturn(View(r)), StepReturn(rq[r].alone))

ConcNext ==
    \E r \in Reqs :
        \/ ConcEnter(r)
        \/ ConcWrite(r)
        \/ ConcExtract(r)
        \/ ConcFfsubsync(r)
        \/ ConcAlass(r)
        \/ ConcRead(r)
        \/ ConcReturn(r)

SpecConc == ConcInit /\ [][ConcNext]_vars

(* ------------------------------ properties ----------------------------- *)

Terminated == pc \in {"returned", "raised"}

Returned == pc = "returned" /\ result # <<>>

AlignTools == {"ffsubsync", "alass"}

\* event e occurs in invoked before position i
Before(e, i) == \E j \in 1..(i - 1) : invoked[j] = e

Occurs(e) == \E i \in 1..Len(invoked) : invoked[i] = e

\* C1: every result with success=false has offset_ms=0 and no
\* synced_subtitle, whichever step failed and however the tools ended.
C1_FailureCarriesNothing ==
    (result # <<>> /\ ~result[1].success)
        => (result[1].offset_ms = 0 /\ result[1].synced_subtitle = <<>>)

\* a failure result after both alignment attempts failed, the fallback
\* having timed out with a non-empty file at the output path
C1_Witness ==
    /\ Returned
    /\ ~result[1].success
    /\ verdict["ffsubsync"] = "fail"
    /\ outcome["alass"] = "timeout"
    /\ result[1].message.log.tool = "alass"

\* C2: sync_subtitle never lets a fault escape: every run that ends, ends
\* by returning a Sync Result.
C2_NoFaultEscapes ==
    /\ pc # "raised"
    /\ Terminated => result # <<>>

\* C3: once sync_subtitle has finished, by return or by an exception, the
\* temporary directory and audio.wav, input.srt and synced.srt are gone.
C3_ScopeReleased ==
    Terminated => (~tmp.exists /\ \A n \in FileNames : ~tmp.files[n].present)

\* the run ended by an exception raised while reading synced.srt, after
\* all three artifacts had been written
C3_Witness ==
    /\ pc = "raised"
    /\ Occurs("read")
    /\ outcome["ffmpeg"] = "exit0"
    /\ ~tmp.exists

\* C4: when the primary attempt is judged failed and the fallback judged
\* successful, the text about to be read and the text read were written by
\* the fallback, the run ends with success=true, that text as
\* synced_subtitle, and no diagnostic of the primary in the message.
C4_FallbackOutputUsed ==
    (verdict["ffsubsync"] = "fail" /\ verdict["alass"] = "ok")
        => /\ pc = "read" => tmp.files["synced.srt"].writer = "alass"
           /\ synced_content # <<>> => synced_content[1].writer = "alass"
           /\ Terminated =>
                /\ result # <<>>
                /\ result[1].success
                /\ result[1].synced_subtitle = <<synced_content[1].text>>
                /\ result[1].message.log.tool # "ffsubsync"

\* C5: alass is invoked only after ffsubsync has been invoked and judged
\* failed; after a successful primary attempt it is never invoked.
C5_FallbackOnlyAfterFailedPrimary ==
    \A i \in 1..Len(invoked) :
        invoked[i] = "alass"
            => (Before("ffsubsync", i) /\ verdict["ffsubsync"] = "fail")

\* alass was invoked after ffsubsync had left a file and timed out
C5_Witness ==
    /\ Occurs("alass")
    /\ outcome["ffsubsync"] = "timeout"
    /\ verdict["alass"] = "ok"

\* C6: with the ffsubsync executable absent the run goes on to alass, and
\* it ends with a result whose success is exactly the fallback's verdict.
C6_AbsentPrimaryFallsBack ==
    (outcome["ffsubsync"] = "notfound" /\ Terminated)
        => /\ Occurs("alass")
           /\ result # <<>>
           /\ result[1].success <=> (verdict["alass"] = "ok")

\* C7: no alignment tool is invoked before extraction returned success; the
\* output is read only after the last alignment attempt returned success and
\* the offset estimated only after the read; after a failed extraction
\* nothing else is invoked.
C7_StepsOrdered ==
    /\ \A i \in 1..Len(invoked) :
         /\ invoked[i] \in AlignTools
              => (Before("ffmpeg", i) /\ verdict["ffmpeg"] = "ok")
         /\ invoked[i] = "read"
              => /\ i > 1
                 /\ invoked[i - 1] \in AlignTools
                 /\ verdict[invoked[i - 1]] = "ok"
         /\ invoked[i] = "estimate" => (i > 1 /\ invoked[i - 1] = "read")
    /\ verdict["ffmpeg"] = "fail" => invoked = <<"ffmpeg">>

\* the offset was estimated, after extraction, both alignment attempts and
\* the read
C7_Witness ==
    /\ Occurs("estimate")
    /\ Occurs("alass")
    /\ Len(invoked) = 5

\* C8: the run ends with success=true exactly when extraction succeeded and
\* an alignment attempt met the success criteria; a success result carries
\* the text read, the offset estimated from it and a confidence.
C8_SuccessIffAligned ==
    Terminated =>
        /\ (result # <<>> /\ result[1].success)
             <=> /\ verdict["ffmpeg"] = "ok"
                 /\ \E t \in AlignTools : verdict[t] = "ok"
        /\ (result # <<>> /\ result[1].success)
             => /\ result[1].synced_subtitle = <<synced_content[1].text>>
                /\ result[1].offset_ms =
                     calculate_offset_from_srt(request.subtitle,
                                               synced_content[1].text)
                /\ result[1].confidence # <<>>

\* C9: extract_audio returns true only after exit code 0 with audio.wav
\* present and larger than 10000 bytes; a non-zero exit code, a timeout or
\* an exception gives false, and it gives nothing but true or false.
C9_ExtractionVerdict ==
    /\ Occurs("ffmpeg") => verdict["ffmpeg"] \in {"ok", "fail"}
    /\ verdict["ffmpeg"] = "ok" => outcome["ffmpeg"] = "exit0"
    /\ (verdict["ffmpeg"] = "ok" /\ ~Terminated)
         => /\ path_exists(tmp, "audio.wav")
            /\ path_getsize(tmp, "audio.wav") > MinAudioBytes
    /\ outcome["ffmpeg"] \in {"exitN", "timeout", "notfound", "raised"}
         => verdict["ffmpeg"] = "fail"

\* extraction succeeded: exit code 0 and a large enough audio.wav
C9_Witness ==
    /\ verdict["ffmpeg"] = "ok"
    /\ pc = "ffsubsync"
    /\ path_getsize(tmp, "audio.wav") = MinAudioBytes + 1

\* C10: for each of the three tools a timeout and a non-zero exit code both
\* make the invocation fail, whatever is at the output path.
C10_TimeoutAsNonZeroExit ==
    \A t \in Tools : outcome[t] \in {"timeout", "exitN"} => verdict[t] = "fail"

\* C14: on success the confidence is the score token of the captured tool
\* output when there is one, and a default (0.9, or 0.0) only when there is
\* none.
C14_ConfidenceIsReportedScore ==
    (result # <<>> /\ result[1].success)
        => IF score # <<>> THEN result[1].confidence = score
           ELSE result[1].confidence \in {<<DefaultConfidence>>, <<0>>}

\* the number of times event e has been invoked
Times(e) == Cardinality({i \in 1..Len(invoked) : invoked[i] = e})

\* C15: in one run ffmpeg, ffsubsync and alass are each invoked at most
\* once, whatever their outcomes.
C15_NoRetry == \A t \in Tools : Times(t) <= 1

\* all three tools were invoked, both alignment attempts failed and the
\* run returned
C15_Witness ==
    /\ \A t \in Tools : Times(t) = 1
    /\ verdict["ffsubsync"] = "fail"
    /\ verdict["alass"] = "fail"
    /\ pc = "returned"

\* C16: the response of /offset equals the result of sync_subtitle in
\* success, offset_ms, confidence and message, and never carries a
\* synced_subtitle; when sync_subtitle gives no result, neither does /offset.
C16_OffsetOnlyEqualsSync ==
    /\ offset_response # <<>>
         => /\ result # <<>>
            /\ offset_response[1].success = result[1].success
            /\ offset_response[1].offset_ms = result[1].offset_ms
            /\ offset_response[1].confidence = result[1].confidence
            /\ offset_response[1].message = result[1].message
            /\ offset_response[1].synced_subtitle = <<>>
    /\ result = <<>> => offset_response = <<>>

\* /offset answered a successful run whose sync result carried a subtitle
C16_Witness ==
    /\ offset_response # <<>>
    /\ result[1].success
    /\ result[1].synced_subtitle # <<>>
    /\ offset_response[1].offset_ms # 0

\* the state of the orchestrator's state machine the run is in; a run left
\* by an exception has assembled no Sync Result and is in none of them
PipelineState ==
    CASE pc \in {"called", "write", "extract"} -> "INIT"
      [] pc \in {"ffsubsync", "alass"}         -> "AUDIO_EXTRACTED"
      [] pc \in {"read", "estimate"}           -> "ALIGNED"
      [] pc = "returned" /\ result[1].success  -> "DONE"
      [] pc = "returned" /\ ~result[1].success -> "ERROR"
      [] OTHER                                 -> "FAULT"

\* C19: a run that has ended is in DONE or ERROR, and after a failed step
\* no later pipeline step has occurred.
C19_EndsDoneOrError ==
    /\ Terminated => PipelineState \in {"DONE", "ERROR"}
    /\ PipelineState = "ERROR"
         => \/ invoked = <<"ffmpeg">>
            \/ invoked = <<"ffmpeg", "ffsubsync", "alass">>

\* C11: for every non-negative x, values of 100 hours and more included,
\* parse_srt_time(ms_to_srt_time(x)) = x.
C11_RoundTrip == ms_back # -1 => ms_back = ms_in

\* the number of cue pairs compared
Pairs == Min(MaxCompared, Min(n_orig, Len(diffs)))

\* the differences aligned[i] - original[i] of the pairs compared
Compared == [i \in 1..Pairs |-> diffs[i]]

\* the j-th smallest element of q (1 <= j <= Len(q)), by rank
KthSmallest(q, j) ==
    CHOOSE v \in {q[i] : i \in 1..Len(q)} :
        /\ Cardinality({i \in 1..Len(q) : q[i] < v}) < j
        /\ Cardinality({i \in 1..Len(q) : q[i] <= v}) >= j

\* C12 as stated: the estimate is the median of the first k differences,
\* the lower of the two middle elements when k is even.
C12_LowerMedian ==
    (estimate # <<>> /\ Pairs > 0)
        => estimate[1] = KthSmallest(Compared, (Pairs + 1) \div 2)

\* C12 as amended: the estimate is the element at sorted index k div 2
\* (zero-based) of the first k = min(5, len(original), len(aligned))
\* differences: the middle element when k is odd, the upper of the two
\* middle elements when k is even.
C12_UpperMedian ==
    (estimate # <<>> /\ Pairs > 0)
        => estimate[1] = KthSmallest(Compared, (Pairs \div 2) + 1)

\* four pairs compared, of tracks of four and six cues, whose two middle
\* differences differ
C12_Witness ==
    /\ estimate # <<>>
    /\ n_orig = 4
    /\ Len(diffs) = 6
    /\ KthSmallest(Compared, 2) # KthSmallest(Compared, 3)

\* C17: the estimate is 0 whenever the original or the aligned track has
\* no timestamp line.
C17_NoTimestampsGivesZero ==
    (estimate # <<>> /\ (n_orig = 0 \/ Len(diffs) = 0)) => estimate[1] = 0

\* the estimate of an original track without cues against a shifted
\* aligned track
C17_Witness ==
    /\ estimate = <<0>>
    /\ n_orig = 0
    /\ Len(diffs) > 0
    /\ diffs[1] # 0

\* C18: when at least three pairs are compared and all but at most one of
\* them differ by d, the estimate is d.
C18_OneOutlierTolerated ==
    (estimate # <<>> /\ Pairs >= 3)
        => \A d \in Shifts :
             Cardinality({i \in 1..Pairs : Compared[i] # d}) <= 1
                 => estimate[1] = d

\* five pairs compared, the first one deviating from the other four
C18_Witness ==
    /\ estimate # <<>>
    /\ Pairs = 5
    /\ Compared[1] # Compared[2]
    /\ \A i \in 2..5 : Compared[i] = Compared[2]
    /\ estimate[1] = Compared[2]

\* C20: whichever tools are present (version query exits) or absent (no
\* such executable), health() returns a report, an absent tool is reported
\* "missing", and the status is "healthy" exactly when ffmpeg and at least
\* one of ffsubsync and alass are available, "degraded" otherwise.
C20_HealthAlwaysReports ==
    (report # <<>> /\ \A t \in Tools : probe[t] # "raised")
        => /\ report[1].kind = "report"
           /\ \A t \in Tools : probe[t] = "notfound" => report[1][t] = "missing"
           /\ report[1].status =
                IF /\ probe["ffmpeg"] = "exit0"
                   /\ probe["ffsubsync"] = "exit0" \/ probe["alass"] = "exit0"
                THEN "healthy" ELSE "degraded"

\* call r is between entering and leaving its with block
Live(r) == rq[r].run.pc \notin {"called", "returned", "raised"}

\* C13: under every interleaving, two calls in progress work in different
\* directories, and each call's run (its directory while in progress, its
\* locals and its result) is the run it has alone with the same tool
\* outcomes.
C13_RequestsIndependent ==
    /\ \A r, q \in Reqs : (r # q /\ Live(r) /\ Live(q)) => rq[r].dir # rq[q].dir
    /\ \A r \in Reqs :
         /\ Live(r) => View(r) = rq[r].alone
         /\ rq[r].run = [rq[r].alone EXCEPT !.tmp = rq[r].run.tmp]

\* two calls with the same subtitle whose steps interleaved: call 1
\* returned a success while call 2, entered before that, is still aligning
C13_Witness ==
    /\ rq[1].run.subtitle = rq[2].run.subtitle
    /\ rq[1].run.pc = "returned"
    /\ rq[1].run.result[1].success
    /\ rq[2].run.pc = "alass"
    /\ rq[2].dir = "tmp_a"
    /\ rq[1].dir = "tmp_b"

====
